---------------------------- MODULE Spec2Model ----------------------------
(***************************************************************************)
(* A model of the task scoring core (backend/tasks/scoring.py): the        *)
(* dependency graph analyzer (build_dependency_map and the depth-first     *)
(* search of detect_circular_dependencies) and the priority scorer         *)
(* (score_task, analyze_tasks, suggest_top_tasks), and of the endpoints of  *)
(* backend/tasks/views.py that add, analyze and suggest stored tasks.      *)
(*                                                                         *)
(* A Python dict is modelled as a record that holds every key; a key the   *)
(* dict lacks holds the value Absent (ids) or a value tagged "absent".     *)
(* Values that Python types dynamically are tagged records [t, v].         *)
(* Scores are fixed-point integers: raw scores in units of 1/100000 point, *)
(* weights in tenths, rounded results in hundredths of a point.            *)
(***************************************************************************)
EXTENDS Integers, Sequences, FiniteSets, TLC

VARIABLES
    tasks,        \* the caller's task list, as the core sees (and mutates) it
    tasks0,       \* the task list as the caller supplied it (history)
    strategy,     \* TaskScorer.strategy
    weights,      \* TaskScorer.weights, in tenths
    consider_holidays,  \* TaskScorer.consider_holidays
    country_holidays,   \* TaskScorer.country_holidays: the days that are holidays
    current_date, \* the day datetime.now() falls on
    pc,           \* "input", "dfs" (inside detect_circular_dependencies), "idle"
    visited,      \* detect_circular_dependencies: visited
    rec_stack,    \* detect_circular_dependencies: rec_stack
    cycles,       \* detect_circular_dependencies: cycles
    stack,        \* the call stack of dfs: frames [task_id, path, dependencies, next]
    top,          \* position of the loop `for task_id in task_map`
    op,           \* the last operation the caller ran
    result,       \* what that operation returned (or the error it raised)
    args,         \* the arguments of that operation, where it takes others than tasks
    Task_objects  \* the rows of the Task table (Task.objects), in query order

scorerVars == <<strategy, weights, consider_holidays, country_holidays, current_date>>

callVars == <<args, Task_objects>>

vars == <<tasks, tasks0, scorerVars, pc, visited, rec_stack, cycles, stack, top, op, result, callVars>>

dfsVars == <<visited, rec_stack, cycles, stack, top>>

-----------------------------------------------------------------------------
(* Bounds of the model. *)

\* The longest task list the caller supplies.
MaxTasks == 3

\* The most dependency entries a task list holds in all.
MaxEdges == 3

\* The most dependency entries of a task list that may lack ids.
MaxRefs == 2

\* The farthest a due date lies from the reference date, in days.
MaxDays == 33

\* The largest importance rating a caller passes, and the size of the least.
MaxRating == 12

\* The largest hour estimate a caller passes, in half hours.
MaxHalfHours == 24

\* The most dependents a task has in a dependency map passed directly.
MaxDependents == 6

\* The ids the requests to the store choose among are the first MaxStoreIds
\* of IdPool; a bulk request holds at most MaxBatch entries.
MaxStoreIds == 2

MaxBatch == 2

-----------------------------------------------------------------------------
(* Values. *)

\* The 'id' a task dict holds when it has no 'id' key.
Absent == "<absent>"

\* The ids the caller gives its tasks, by position.
IdPool == <<"a", "b", "c", "d", "e">>

\* An id no task of the list has.
Dangling == "zz"

\* str(i) and f"task_{i}" for a list position i (0-based).
IndexStrings == <<"0", "1", "2", "3", "4">>

SyntheticStrings == <<"task_0", "task_1", "task_2", "task_3", "task_4">>

str(i) == IndexStrings[i + 1]

synthetic_id(i) == SyntheticStrings[i + 1]

Tag(t, v) == [t |-> t, v |-> v]

NoValue == Tag("absent", 0)

PyNone == Tag("none", 0)

PyList(s) == Tag("list", s)

\* What a call gives back: a value, or the exception it raised.
Ok(v) == [err |-> "none", v |-> v]

Raise(e) == [err |-> e, v |-> 0]

\* A task with only the fields the graph operations read.
GraphTask(id, deps) ==
    [id |-> id, dependencies |-> PyList(deps), importance |-> NoValue,
     due_date |-> NoValue, estimated_hours |-> NoValue, effort |-> NoValue]

-----------------------------------------------------------------------------
(* The dependency graph analyzer. *)

\* str(task.get('id', str(i))) for the task at 1-based position i.
task_key(ts, i) == IF ts[i].id = Absent THEN str(i - 1) ELSE ts[i].id

\* task.get('dependencies', []) as the loops use it: a falsy value (a missing
\* key, None, an empty list) is skipped.
dependencies_of(task) ==
    IF task.dependencies.t = "list" THEN task.dependencies.v ELSE <<>>

\* The keys of task_map in dict order (the order of first insertion).
RECURSIVE task_map_keys(_, _)
task_map_keys(ts, n) ==
    IF n = 0 THEN <<>>
    ELSE LET before == task_map_keys(ts, n - 1)
             k == task_key(ts, n)
         IN  IF \E j \in 1..Len(before) : before[j] = k THEN before
             ELSE Append(before, k)

\* task_map[k]: the last task of the list stored under key k.
task_map_get(ts, k) ==
    LET last == CHOOSE i \in 1..Len(ts) :
                    /\ task_key(ts, i) = k
                    /\ \A j \in (i + 1)..Len(ts) : task_key(ts, j) # k
    IN  ts[last]

task_ids(ts) == {task_key(ts, i) : i \in 1..Len(ts)}

\* path.index(task_id): the first position of task_id in path.
path_index(path, task_id) ==
    CHOOSE i \in 1..Len(path) :
        /\ path[i] = task_id
        /\ \A j \in 1..(i - 1) : path[j] # task_id

\* The locals of a call dfs(task_id, path) that goes past its tests: the
\* dependencies of task_map.get(task_id) and the position of its loop.
frame_of(task_id, path) ==
    [task_id |-> task_id, path |-> path,
     dependencies |-> dependencies_of(task_map_get(tasks, task_id)), next |-> 1]

\* dfs as it would be with every revisit of a node taken for a cycle.
dfs_revisit_is_cycle(task_id, path, stk) ==
    IF task_id \in visited
    THEN /\ cycles' = Append(cycles, Append(path, task_id))
         /\ stack' = stk
         /\ UNCHANGED <<visited, rec_stack>>
    ELSE /\ visited' = visited \cup {task_id}
         /\ rec_stack' = rec_stack \cup {task_id}
         /\ stack' = Append(stk, frame_of(task_id, path))
         /\ UNCHANGED cycles

\* dfs as it would be with the visited test placed before the rec_stack test.
dfs_visited_first(task_id, path, stk) ==
    IF task_id \in visited
    THEN /\ stack' = stk
         /\ UNCHANGED <<visited, rec_stack, cycles>>
    ELSE /\ visited' = visited \cup {task_id}
         /\ rec_stack' = rec_stack \cup {task_id}
         /\ stack' = Append(stk, frame_of(task_id, path))
         /\ UNCHANGED cycles

\* dfs as it would be without the visited test.
dfs_no_visited_test(task_id, path, stk) ==
    IF task_id \in rec_stack
    THEN /\ cycles' = IF \E i \in 1..Len(path) : path[i] = task_id
                      THEN Append(cycles,
                                  SubSeq(path, path_index(path, task_id), Len(path))
                                      \o <<task_id>>)
                      ELSE cycles
         /\ stack' = stk
         /\ UNCHANGED <<visited, rec_stack>>
    ELSE /\ visited' = visited \cup {task_id}
         /\ rec_stack' = rec_stack \cup {task_id}
         /\ stack' = Append(stk, frame_of(task_id, path))
         /\ UNCHANGED cycles

\* dfs as it would be if it reported the whole path instead of its slice
\* from path.index(task_id).
dfs_whole_path(task_id, path, stk) ==
    IF task_id \in rec_stack
    THEN /\ cycles' = Append(cycles, path \o <<task_id>>)
         /\ stack' = stk
         /\ UNCHANGED <<visited, rec_stack>>
    ELSE IF task_id \in visited
    THEN /\ stack' = stk
         /\ UNCHANGED <<visited, rec_stack, cycles>>
    ELSE /\ visited' = visited \cup {task_id}
         /\ rec_stack' = rec_stack \cup {task_id}
         /\ stack' = Append(stk, frame_of(task_id, path))
         /\ UNCHANGED cycles

\* One call dfs(task_id, path), up to the point where its loop starts; `stk`
\* is the call stack of the caller.
dfs(task_id, path, stk) ==
    IF task_id \in rec_stack
    THEN /\ cycles' = IF \E i \in 1..Len(path) : path[i] = task_id
                      THEN Append(cycles,
                                  SubSeq(path, path_index(path, task_id), Len(path))
                                      \o <<task_id>>)
                      ELSE cycles
         /\ stack' = stk
         /\ UNCHANGED <<visited, rec_stack>>
    ELSE IF task_id \in visited
    THEN /\ stack' = stk
         /\ UNCHANGED <<visited, rec_stack, cycles>>
    ELSE /\ visited' = visited \cup {task_id}
         /\ rec_stack' = rec_stack \cup {task_id}
         /\ stack' = Append(stk, frame_of(task_id, path))
         /\ UNCHANGED cycles

\* The locals of detect_circular_dependencies when it is run in one piece, as
\* a record: the same search, for a caller that only takes its result.
search_start ==
    [visited |-> {}, rec_stack |-> {}, cycles |-> <<>>, stack |-> <<>>, top |-> 1]

\* dfs(task_id, path) up to the start of its loop, on the record s of locals
\* with the caller's stack stk.
search_enter(ts, s, task_id, path, stk) ==
    IF task_id \in s.rec_stack
    THEN [s EXCEPT !.cycles = IF \E i \in 1..Len(path) : path[i] = task_id
                              THEN Append(@, SubSeq(path, path_index(path, task_id), Len(path))
                                                 \o <<task_id>>)
                              ELSE @,
                   !.stack = stk]
    ELSE IF task_id \in s.visited THEN [s EXCEPT !.stack = stk]
    ELSE [s EXCEPT !.visited = @ \cup {task_id},
                   !.rec_stack = @ \cup {task_id},
                   !.stack = Append(stk, [task_id |-> task_id, path |-> path,
                                          dependencies |-> dependencies_of(task_map_get(ts, task_id)),
                                          next |-> 1])]

\* One iteration of the loop over task_map, or of the loop of the running
\* call of dfs, or its return.
search_step(ts, s) ==
    IF s.stack = <<>>
    THEN LET task_id == task_map_keys(ts, Len(ts))[s.top]
             entered == IF task_id \notin s.visited
                        THEN search_enter(ts, s, task_id, <<>>, <<>>) ELSE s
         IN  [entered EXCEPT !.top = s.top + 1]
    ELSE LET frame == s.stack[Len(s.stack)]
             stk == [s.stack EXCEPT ![Len(s.stack)].next = frame.next + 1]
         IN  IF frame.next <= Len(frame.dependencies)
             THEN IF frame.dependencies[frame.next] \in task_ids(ts)
                  THEN search_enter(ts, s, frame.dependencies[frame.next],
                                    Append(frame.path, frame.task_id), stk)
                  ELSE [s EXCEPT !.stack = stk]
             ELSE [s EXCEPT !.rec_stack = @ \ {frame.task_id},
                            !.stack = SubSeq(s.stack, 1, Len(s.stack) - 1)]

RECURSIVE search_run(_, _)
search_run(ts, s) ==
    IF s.stack = <<>> /\ s.top > Len(task_map_keys(ts, Len(ts))) THEN s.cycles
    ELSE search_run(ts, search_step(ts, s))

\* detect_circular_dependencies(tasks), for a list whose dependencies are lists.
detect_circular_dependencies(ts) == search_run(ts, search_start)

\* detect_circular_dependencies is called: its locals are set up.
DetectStart ==
    /\ pc \in {"input", "idle"}
    /\ pc' = "dfs"
    /\ visited' = {}
    /\ rec_stack' = {}
    /\ cycles' = <<>>
    /\ stack' = <<>>
    /\ top' = 1
    /\ op' = "detect_circular_dependencies"
    /\ UNCHANGED <<callVars, tasks, tasks0, scorerVars, result>>

\* One iteration of `for task_id in task_map: if task_id not in visited: dfs(task_id, [])`.
DetectLoop ==
    /\ pc = "dfs"
    /\ stack = <<>>
    /\ top <= Len(task_map_keys(tasks, Len(tasks)))
    /\ LET task_id == task_map_keys(tasks, Len(tasks))[top]
       IN  IF task_id \notin visited
           THEN dfs(task_id, <<>>, <<>>)
           ELSE UNCHANGED <<visited, rec_stack, cycles, stack>>
    /\ top' = top + 1
    /\ UNCHANGED <<callVars, tasks, tasks0, scorerVars, pc, op, result>>

\* One iteration of `for dep_id in dependencies` in the running call of dfs.
DfsLoop ==
    /\ pc = "dfs"
    /\ stack # <<>>
    /\ LET frame == stack[Len(stack)]
           deps == frame.dependencies
           stk == [stack EXCEPT ![Len(stack)].next = frame.next + 1]
       IN  /\ frame.next <= Len(deps)
           /\ IF deps[frame.next] \in task_ids(tasks)
              THEN dfs(deps[frame.next], Append(frame.path, frame.task_id), stk)
              ELSE /\ stack' = stk
                   /\ UNCHANGED <<visited, rec_stack, cycles>>
    /\ UNCHANGED <<callVars, tasks, tasks0, scorerVars, pc, top, op, result>>

\* The running call of dfs has no dependency left: rec_stack.remove(task_id), return.
DfsReturn ==
    /\ pc = "dfs"
    /\ stack # <<>>
    /\ LET frame == stack[Len(stack)]
       IN  /\ frame.next > Len(frame.dependencies)
           /\ rec_stack' = rec_stack \ {frame.task_id}
           /\ stack' = SubSeq(stack, 1, Len(stack) - 1)
    /\ UNCHANGED <<callVars, tasks, tasks0, scorerVars, pc, visited, cycles, top, op, result>>

\* `return cycles`.
DetectReturn ==
    /\ pc = "dfs"
    /\ stack = <<>>
    /\ top > Len(task_map_keys(tasks, Len(tasks)))
    /\ pc' = "idle"
    /\ result' = Ok(cycles)
    /\ UNCHANGED <<callVars, tasks, tasks0, scorerVars, visited, rec_stack, cycles, stack, top, op>>

DetectNext == DetectStart \/ DetectLoop \/ DfsLoop \/ DfsReturn \/ DetectReturn

-----------------------------------------------------------------------------
(* The priority scorer.  Raw scores are integers in units of 1/Point of a  *)
(* point, weights are in tenths, so a weighted score is in units of         *)
(* 1/(10 * Point); what round(x, 2) returns is in hundredths of a point.    *)

Point == 100000

\* round(x, 2) of x given in units of 1/(100 * unit): the nearest hundredth,
\* a tie going to the even one.
round2(x, unit) ==
    LET q == x \div unit
        r == x % unit
    IN  IF 2 * r > unit \/ (2 * r = unit /\ q % 2 = 1) THEN q + 1 ELSE q

\* The strategies of _get_strategy_weights, and a name it does not know.
KnownStrategies == {"smart_balance", "fastest_wins", "high_impact", "deadline_driven"}

StrategyNames == KnownStrategies \cup {"round_robin"}

strategies ==
    [smart_balance   |-> [urgency |-> 10, importance |-> 10, effort |-> 10, dependency |-> 10],
     fastest_wins    |-> [urgency |-> 5,  importance |-> 7,  effort |-> 20, dependency |-> 8],
     high_impact     |-> [urgency |-> 6,  importance |-> 25, effort |-> 3,  dependency |-> 8],
     deadline_driven |-> [urgency |-> 25, importance |-> 7,  effort |-> 5,  dependency |-> 10]]

\* _get_strategy_weights as it would be if an unknown name chose the first
\* strategy after the default one.
get_strategy_weights_wrong_default(name) ==
    IF name \in DOMAIN strategies THEN strategies[name] ELSE strategies["fastest_wins"]

\* strategies.get(self.strategy, strategies['smart_balance'])
get_strategy_weights(name) ==
    IF name \in DOMAIN strategies THEN strategies[name] ELSE strategies["smart_balance"]

\* The day datetime.now() falls on: a Wednesday.
Today == 100

\* The days holidays.country_holidays(country) holds: a Friday and a Tuesday.
Holidays == {Today + 2, Today + 6}

\* date.weekday(): Monday is 0; day 0 is a Monday.
weekday(d) == d % 7

RECURSIVE calculate_working_days(_, _)
calculate_working_days(start_date, end_date) ==
    IF end_date < start_date THEN 0 - calculate_working_days(end_date, start_date)
    ELSE IF ~consider_holidays THEN end_date - start_date
    ELSE Cardinality({d \in start_date..(end_date - 1) :
                         weekday(d) < 5 /\ d \notin country_holidays})

Min(a, b) == IF a <= b THEN a ELSE b

Max(a, b) == IF a >= b THEN a ELSE b

\* urgency_of_days as it would be with the second tier ending a day early
\* (`< 5` for `<= 5`).
urgency_of_days_short_tier(days_until_due) ==
    IF days_until_due < 0
    THEN Min(40 * Point, 40 * Point + (0 - days_until_due) * (Point \div 2))
    ELSE IF days_until_due = 0 THEN 38 * Point
    ELSE IF days_until_due = 1 THEN 35 * Point
    ELSE IF days_until_due = 2 THEN 33 * Point
    ELSE IF days_until_due < 5 THEN 30 * Point - (days_until_due - 2) * 2 * Point
    ELSE IF days_until_due <= 10 THEN 20 * Point - (days_until_due - 5) * Point
    ELSE IF days_until_due <= 15
    THEN 15 * Point - (days_until_due - 10) * ((8 * Point) \div 10)
    ELSE Max(0, 5 * Point - (days_until_due - 15) * ((3 * Point) \div 10))

\* urgency_of_days as it would be if the overdue tier added the signed count
\* of days instead of its absolute value.
urgency_of_days_signed_overdue(days_until_due) ==
    IF days_until_due < 0
    THEN Min(40 * Point, 40 * Point + days_until_due * (Point \div 2))
    ELSE IF days_until_due = 0 THEN 38 * Point
    ELSE IF days_until_due = 1 THEN 35 * Point
    ELSE IF days_until_due = 2 THEN 33 * Point
    ELSE IF days_until_due <= 5 THEN 30 * Point - (days_until_due - 2) * 2 * Point
    ELSE IF days_until_due <= 10 THEN 20 * Point - (days_until_due - 5) * Point
    ELSE IF days_until_due <= 15
    THEN 15 * Point - (days_until_due - 10) * ((8 * Point) \div 10)
    ELSE Max(0, 5 * Point - (days_until_due - 15) * ((3 * Point) \div 10))

\* The score calculate_urgency_score gives a task due in days_until_due days.
urgency_of_days(days_until_due) ==
    IF days_until_due < 0
    THEN Min(40 * Point, 40 * Point + (0 - days_until_due) * (Point \div 2))
    ELSE IF days_until_due = 0 THEN 38 * Point
    ELSE IF days_until_due = 1 THEN 35 * Point
    ELSE IF days_until_due = 2 THEN 33 * Point
    ELSE IF days_until_due <= 5 THEN 30 * Point - (days_until_due - 2) * 2 * Point
    ELSE IF days_until_due <= 10 THEN 20 * Point - (days_until_due - 5) * Point
    ELSE IF days_until_due <= 15
    THEN 15 * Point - (days_until_due - 10) * ((8 * Point) \div 10)
    ELSE Max(0, 5 * Point - (days_until_due - 15) * ((3 * Point) \div 10))

\* A due_date is absent, None, "" (t = "empty"), a string in ISO form for day
\* v (t = "iso"), another string (t = "str"), a datetime on day v
\* (t = "datetime"), a date on day v (t = "date") or an integer v (t = "int").
due_date_falsy(due_date) ==
    \/ due_date.t \in {"absent", "none", "empty"}
    \/ due_date.t = "int" /\ due_date.v = 0

calculate_urgency_score(due_date, now) ==
    IF due_date_falsy(due_date) THEN Ok(10 * Point)
    ELSE IF due_date.t = "str" THEN Ok(10 * Point)          \* ValueError, caught
    ELSE IF due_date.t \in {"int", "date"} THEN Raise("AttributeError")  \* no .date()
    ELSE LET due == due_date.v
             days_until_due ==
                 IF consider_holidays THEN calculate_working_days(now, due)
                 ELSE due - now
         IN  Ok(urgency_of_days(days_until_due))

\* calculate_importance_score as it would be without the clamp to 1..10.
calculate_importance_score_unclamped(importance) ==
    IF importance.t # "int" THEN 15 * Point
    ELSE importance.v * 3 * Point

\* An importance is absent, None, an integer v (t = "int") or a string.
calculate_importance_score(importance) ==
    IF importance.t # "int" THEN 15 * Point
    ELSE Max(1, Min(10, importance.v)) * 3 * Point

\* 15 - 2 * log2(hours) in units of 1/Point for 17 to 127 half hours (8.5 to
\* 63.5 hours), to the nearest unit; from 64 hours on it is at most 3.
EffortLog ==
    <<
      882507, 866015, 850414, 835614, 821537, 808114, 795288, 783007,
      771229, 759912, 749022, 738529, 728404, 718622, 709161, 700000,
      691121, 682507, 674143, 666015, 658109, 650414, 642920, 635614,
      628490, 621537, 614747, 608114, 601629, 595288, 589082, 583007,
      577058, 571229, 565515, 559912, 554416, 549022, 543728, 538529,
      533422, 528404, 523471, 518622, 513853, 509161, 504544, 500000,
      495526, 491121, 486782, 482507, 478295, 474143, 470051, 466015,
      462035, 458109, 454236, 450414, 446643, 442920, 439244, 435614,
      432030, 428490, 424992, 421537, 418122, 414747, 411411, 408114,
      404853, 401629, 398441, 395288, 392168, 389082, 386029, 383007,
      380017, 377058, 374129, 371229, 368358, 365515, 362700, 359912,
      357151, 354416, 351707, 349022, 346363, 343728, 341117, 338529,
      335964, 333422, 330902, 328404, 325927, 323471, 321036, 318622,
      316227, 313853, 311497, 309161, 306843, 304544, 302263
    >>

\* An hour estimate is absent, None, a number of v half hours (t = "num") or a
\* string (t = "str").
calculate_effort_score(estimated_hours) ==
    IF estimated_hours.t \in {"absent", "none"} THEN Ok((15 * Point) \div 2)
    ELSE IF estimated_hours.t = "str" THEN Raise("TypeError")   \* str <= 0
    ELSE LET half_hours == estimated_hours.v
         IN  IF half_hours <= 0 THEN Ok((15 * Point) \div 2)
             ELSE IF half_hours <= 2 THEN Ok(15 * Point)
             ELSE IF half_hours <= 4 THEN Ok(12 * Point)
             ELSE IF half_hours <= 8 THEN Ok(9 * Point)
             ELSE IF half_hours <= 16 THEN Ok(6 * Point)
             ELSE IF half_hours >= 128 THEN Ok(3 * Point)
             ELSE Ok(Max(3 * Point, EffortLog[half_hours - 16]))

\* task.get('estimated_hours') or task.get('effort')
falsy_hours(x) ==
    \/ x.t \in {"absent", "none"}
    \/ x.t = "num" /\ x.v = 0

estimated_hours_of(task) ==
    IF falsy_hours(task.estimated_hours)
    THEN (IF task.effort.t = "absent" THEN PyNone ELSE task.effort)
    ELSE task.estimated_hours

\* dependency_map.get(str(task_id), set()) and the score of its size.
dependent_count(task_id, dependency_map) ==
    IF task_id \in DOMAIN dependency_map THEN Cardinality(dependency_map[task_id]) ELSE 0

\* calculate_dependency_score as its docstring has it: 15 points for three
\* dependents or more.
calculate_dependency_score_as_documented(task_id, dependency_map) ==
    LET n == dependent_count(task_id, dependency_map)
    IN  IF n = 0 THEN 5 * Point
        ELSE IF n = 1 THEN 8 * Point
        ELSE IF n = 2 THEN 11 * Point
        ELSE 15 * Point

calculate_dependency_score(task_id, dependency_map) ==
    LET n == dependent_count(task_id, dependency_map)
    IN  IF n = 0 THEN 5 * Point
        ELSE IF n = 1 THEN 8 * Point
        ELSE IF n = 2 THEN 11 * Point
        ELSE Min(15 * Point, 11 * Point + (n - 2) * ((3 * Point) \div 2))

\* A 'dependencies' value that is truthy and cannot be iterated: looping over
\* it raises TypeError.  (The search of detect_circular_dependencies is
\* modelled for task lists without such a value.)
not_iterable(task) == task.dependencies.t = "int" /\ task.dependencies.v # 0

\* dependency_map after `dependency_map[dep_id_str].add(task_id)`, the set
\* created first when the key is new.
add_dependent(dependency_map, dep_id, task_id) ==
    IF dep_id \in DOMAIN dependency_map
    THEN [dependency_map EXCEPT ![dep_id] = @ \cup {task_id}]
    ELSE dependency_map @@ (dep_id :> {task_id})

\* The map {} of build_dependency_map before its loops.
EmptyMap == [k \in {} |-> {}]

RECURSIVE map_dependencies_unvalidated(_, _, _, _, _)
\* The inner loop of build_dependency_map as it would be without the test
\* `if dep_id_str in task_ids`.
map_dependencies_unvalidated(dependency_map, ids, dependencies, n, task_id) ==
    IF n = 0 THEN dependency_map
    ELSE add_dependent(
             map_dependencies_unvalidated(dependency_map, ids, dependencies, n - 1, task_id),
             dependencies[n], task_id)

RECURSIVE map_dependencies(_, _, _, _, _)
\* The inner loop of build_dependency_map over the first n dependencies of the
\* task task_id.
map_dependencies(dependency_map, ids, dependencies, n, task_id) ==
    IF n = 0 THEN dependency_map
    ELSE LET before == map_dependencies(dependency_map, ids, dependencies, n - 1, task_id)
         IN  IF dependencies[n] \in ids
             THEN add_dependent(before, dependencies[n], task_id)
             ELSE before

RECURSIVE map_tasks(_, _)
\* The outer loop of build_dependency_map over the first n tasks.
map_tasks(ts, n) ==
    IF n = 0 THEN EmptyMap
    ELSE map_dependencies(map_tasks(ts, n - 1), task_ids(ts),
                          dependencies_of(ts[n]), Len(dependencies_of(ts[n])),
                          task_key(ts, n))

build_dependency_map(ts) ==
    IF \E i \in 1..Len(ts) : not_iterable(ts[i]) THEN Raise("TypeError")
    ELSE Ok(map_tasks(ts, Len(ts)))

\* all_tasks.index(task): the first position holding an equal dict; 0 stands
\* for the ValueError of a task that is not in the list.
index_of(all_tasks, task) ==
    IF \E i \in 1..Len(all_tasks) : all_tasks[i] = task
    THEN CHOOSE i \in 1..Len(all_tasks) :
             /\ all_tasks[i] = task
             /\ \A j \in 1..(i - 1) : all_tasks[j] # task
    ELSE 0

\* The dict score_task would return if the effort score were weighted with
\* the importance weight.
scored_effort_misweighted(task, w, urgency, importance, effort, dependency) ==
    [task |-> task,
     score |-> round2(urgency * w.urgency + importance * w.importance
                          + effort * w.importance + dependency * w.dependency,
                      Point \div 10),
     breakdown |-> [urgency    |-> round2(urgency * w.urgency, Point \div 10),
                    importance |-> round2(importance * w.importance, Point \div 10),
                    effort     |-> round2(effort * w.importance, Point \div 10),
                    dependency |-> round2(dependency * w.dependency, Point \div 10)],
     raw_scores |-> [urgency    |-> round2(urgency, Point \div 100),
                     importance |-> round2(importance, Point \div 100),
                     effort     |-> round2(effort, Point \div 100),
                     dependency |-> round2(dependency, Point \div 100)]]

\* The dict score_task returns, from the four raw scores (units of 1/Point).
scored(task, w, urgency, importance, effort, dependency) ==
    [task |-> task,
     score |-> round2(urgency * w.urgency + importance * w.importance
                          + effort * w.effort + dependency * w.dependency,
                      Point \div 10),
     breakdown |-> [urgency    |-> round2(urgency * w.urgency, Point \div 10),
                    importance |-> round2(importance * w.importance, Point \div 10),
                    effort     |-> round2(effort * w.effort, Point \div 10),
                    dependency |-> round2(dependency * w.dependency, Point \div 10)],
     raw_scores |-> [urgency    |-> round2(urgency, Point \div 100),
                     importance |-> round2(importance, Point \div 100),
                     effort     |-> round2(effort, Point \div 100),
                     dependency |-> round2(dependency, Point \div 100)]]

\* score_task(task, all_tasks, dependency_map); dependency_map is None
\* (PyNone) or a dict (Ok(map)).
score_task(task, all_tasks, dependency_map) ==
    LET built == IF "t" \in DOMAIN dependency_map THEN build_dependency_map(all_tasks)
                 ELSE dependency_map
        index == index_of(all_tasks, task)
        urgency == calculate_urgency_score(task.due_date, current_date)
        effort == calculate_effort_score(estimated_hours_of(task))
    IN  IF built.err # "none" THEN built
        ELSE IF index = 0 THEN Raise("ValueError")
        ELSE IF urgency.err # "none" THEN urgency
        ELSE IF effort.err # "none" THEN effort
        ELSE LET task_id == IF task.id = Absent THEN str(index - 1) ELSE task.id
             IN  Ok(scored(task, weights, urgency.v,
                           calculate_importance_score(task.importance), effort.v,
                           calculate_dependency_score(task_id, built.v)))

\* for i, task in enumerate(tasks): if 'id' not in task: task['id'] = f"task_{i}"
assign_ids(ts) ==
    [i \in 1..Len(ts) |->
        IF ts[i].id = Absent THEN [ts[i] EXCEPT !.id = synthetic_id(i - 1)] ELSE ts[i]]

\* s with x put after its last element whose score is at least x's, or at the
\* front: one step of a stable descending sort.
insert_descending(s, x) ==
    LET ahead == {i \in 1..Len(s) : s[i].score >= x.score}
        k == IF ahead = {} THEN 0 ELSE CHOOSE i \in ahead : \A j \in ahead : j <= i
    IN  SubSeq(s, 1, k) \o <<x>> \o SubSeq(s, k + 1, Len(s))

\* s with x put before its first element whose score is at most x's: the
\* step of a descending sort that turns ties around.
insert_descending_unstable(s, x) ==
    LET behind == {i \in 1..Len(s) : s[i].score <= x.score}
        k == IF behind = {} THEN Len(s) + 1 ELSE CHOOSE i \in behind : \A j \in behind : i <= j
    IN  SubSeq(s, 1, k - 1) \o <<x>> \o SubSeq(s, k, Len(s))

RECURSIVE sort_by_score_unstable(_)
\* A descending sort that does not keep the order of equal scores.
sort_by_score_unstable(s) ==
    IF s = <<>> THEN <<>>
    ELSE insert_descending_unstable(sort_by_score_unstable(SubSeq(s, 1, Len(s) - 1)), s[Len(s)])

RECURSIVE sort_by_score(_)
\* scored_tasks.sort(key=lambda x: x['score'], reverse=True): list.sort is
\* stable, with reverse=True too.
sort_by_score(s) ==
    IF s = <<>> THEN <<>>
    ELSE insert_descending(sort_by_score(SubSeq(s, 1, Len(s) - 1)), s[Len(s)])

\* analyze_tasks as it would be if it built the dependency map before it
\* assigned the missing ids.
analyze_tasks_map_before_ids(ts) ==
    IF ts = <<>> THEN [tasks |-> ts, ret |-> Ok(<<>>)]
    ELSE LET with_ids == assign_ids(ts)
             dependency_map == build_dependency_map(ts)
             results == [i \in 1..Len(with_ids) |->
                            score_task(with_ids[i], with_ids, dependency_map)]
             failed == {i \in 1..Len(with_ids) : results[i].err # "none"}
         IN  [tasks |-> with_ids,
              ret |-> IF dependency_map.err # "none" THEN dependency_map
                      ELSE IF failed # {}
                      THEN results[CHOOSE i \in failed : \A j \in failed : i <= j]
                      ELSE Ok(sort_by_score([i \in 1..Len(with_ids) |-> results[i].v]))]

\* analyze_tasks(tasks): `tasks` is the list after the call (the ids are
\* assigned in place), `ret` what the call returns or raises.
analyze_tasks(ts) ==
    IF ts = <<>> THEN [tasks |-> ts, ret |-> Ok(<<>>)]
    ELSE LET with_ids == assign_ids(ts)
             dependency_map == build_dependency_map(with_ids)
             results == [i \in 1..Len(with_ids) |->
                            score_task(with_ids[i], with_ids, dependency_map)]
             failed == {i \in 1..Len(with_ids) : results[i].err # "none"}
         IN  [tasks |-> with_ids,
              ret |-> IF dependency_map.err # "none" THEN dependency_map
                      ELSE IF failed # {}
                      THEN results[CHOOSE i \in failed : \A j \in failed : i <= j]
                      ELSE Ok(sort_by_score([i \in 1..Len(with_ids) |-> results[i].v]))]

RECURSIVE join(_, _)
\* separator.join(strings)
join(separator, strings) ==
    IF strings = <<>> THEN ""
    ELSE IF Len(strings) = 1 THEN strings[1]
    ELSE strings[1] \o separator \o join(separator, Tail(strings))

\* _generate_explanation as it would be without the reason it falls back on.
generate_explanation_no_fallback(scored_task) ==
    LET raw == scored_task.raw_scores
        reasons ==
            (IF raw.urgency >= 3500 THEN <<"Due very soon or overdue">>
             ELSE IF raw.urgency >= 2500 THEN <<"Approaching deadline">> ELSE <<>>)
            \o (IF raw.importance >= 2400 THEN <<"High importance rating">> ELSE <<>>)
            \o (IF raw.effort >= 1200 THEN <<"Quick win (low effort)">> ELSE <<>>)
            \o (IF raw.dependency >= 1100 THEN <<"Blocks other tasks">> ELSE <<>>)
    IN  join(" * ", reasons)

\* _generate_explanation(scored_task): the reasons, each without the symbol it
\* starts with in the source, joined by a bullet (here " * "); raw scores are
\* in hundredths.
generate_explanation(scored_task) ==
    LET raw == scored_task.raw_scores
        reasons ==
            (IF raw.urgency >= 3500 THEN <<"Due very soon or overdue">>
             ELSE IF raw.urgency >= 2500 THEN <<"Approaching deadline">> ELSE <<>>)
            \o (IF raw.importance >= 2400 THEN <<"High importance rating">> ELSE <<>>)
            \o (IF raw.effort >= 1200 THEN <<"Quick win (low effort)">> ELSE <<>>)
            \o (IF raw.dependency >= 1100 THEN <<"Blocks other tasks">> ELSE <<>>)
    IN  join(" * ", IF reasons = <<>> THEN <<"Balanced priority across factors">>
                    ELSE reasons)

\* s[:count] of a list s: the first count elements, all but the last -count
\* when count is negative.
slice_to(s, count) ==
    IF count >= 0 THEN SubSeq(s, 1, Min(count, Len(s)))
    ELSE SubSeq(s, 1, Max(0, Len(s) + count))

\* scored_task after scored_task['explanation'] = explanation
with_explanation(scored_task) ==
    [task |-> scored_task.task, score |-> scored_task.score,
     breakdown |-> scored_task.breakdown, raw_scores |-> scored_task.raw_scores,
     explanation |-> generate_explanation(scored_task)]

\* suggest_top_tasks(tasks, count): `tasks` is the list after the call, `ret`
\* what the call returns or raises.
suggest_top_tasks(ts, count) ==
    LET analyzed == analyze_tasks(ts)
    IN  IF analyzed.ret.err # "none" THEN analyzed
        ELSE LET top_tasks == slice_to(analyzed.ret.v, count)
             IN  [tasks |-> analyzed.tasks,
                  ret |-> Ok([k \in 1..Len(top_tasks) |-> with_explanation(top_tasks[k])])]

\* TaskScorer(strategy=..., consider_holidays=...): the caller constructs its
\* scorer, before it puts its list together.
NewScorer ==
    /\ pc = "input"
    /\ tasks = <<>>
    /\ \E name \in StrategyNames, with_holidays \in BOOLEAN :
           /\ strategy' = name
           /\ weights' = get_strategy_weights(name)
           /\ consider_holidays' = with_holidays
           /\ country_holidays' = IF with_holidays THEN Holidays ELSE {}
    /\ UNCHANGED <<callVars, tasks, tasks0, current_date, pc, dfsVars, op, result>>

\* The caller calls build_dependency_map(tasks).
BuildDependencyMap ==
    /\ pc \in {"input", "idle"}
    /\ pc' = "idle"
    /\ op' = "build_dependency_map"
    /\ result' = build_dependency_map(tasks)
    /\ UNCHANGED <<callVars, tasks, tasks0, scorerVars, dfsVars>>

\* The caller calls score_task(tasks[i], tasks) for a task of its list.
ScoreTask ==
    /\ pc \in {"input", "idle"}
    /\ \E i \in 1..Len(tasks) : result' = score_task(tasks[i], tasks, PyNone)
    /\ pc' = "idle"
    /\ op' = "score_task"
    /\ UNCHANGED <<callVars, tasks, tasks0, scorerVars, dfsVars>>

\* The caller calls analyze_tasks(tasks).
AnalyzeTasks ==
    /\ pc \in {"input", "idle"}
    /\ pc' = "idle"
    /\ op' = "analyze_tasks"
    /\ LET analyzed == analyze_tasks(tasks)
       IN  tasks' = analyzed.tasks /\ result' = analyzed.ret
    /\ UNCHANGED <<callVars, tasks0, scorerVars, dfsVars>>

\* The caller calls calculate_urgency_score(due_date, current_date) with an
\* ISO date string and a reference date on any day of the week.
CalculateUrgencyScore ==
    /\ pc \in {"input", "idle"}
    /\ \E now \in Today..(Today + 6), d \in (0 - MaxDays)..MaxDays :
           /\ args' = [due_date |-> Tag("iso", now + d), current_date |-> now]
           /\ result' = calculate_urgency_score(Tag("iso", now + d), now)
    /\ pc' = "idle"
    /\ op' = "calculate_urgency_score"
    /\ UNCHANGED <<Task_objects, tasks, tasks0, scorerVars, dfsVars>>

\* The caller calls calculate_importance_score(importance).
CalculateImportanceScore ==
    /\ pc \in {"input", "idle"}
    /\ \E importance \in {PyNone, Tag("str", 0)}
                          \cup {Tag("int", r) : r \in (0 - MaxRating)..MaxRating} :
           /\ args' = [importance |-> importance]
           /\ result' = Ok(calculate_importance_score(importance))
    /\ pc' = "idle"
    /\ op' = "calculate_importance_score"
    /\ UNCHANGED <<Task_objects, tasks, tasks0, scorerVars, dfsVars>>

\* The caller calls calculate_effort_score(estimated_hours) with None or a
\* number of half hours.
CalculateEffortScore ==
    /\ pc \in {"input", "idle"}
    /\ \E estimated_hours \in {PyNone} \cup {Tag("num", h) : h \in (0 - 2)..MaxHalfHours} :
           /\ args' = [estimated_hours |-> estimated_hours]
           /\ result' = calculate_effort_score(estimated_hours)
    /\ pc' = "idle"
    /\ op' = "calculate_effort_score"
    /\ UNCHANGED <<Task_objects, tasks, tasks0, scorerVars, dfsVars>>

\* Ids of the dependents in a dependency map passed directly.
DependentPool == IndexStrings \o SyntheticStrings

\* A dependency map in which task_id has the first n ids of the pool as
\* dependents; no key at all when there are none.
map_with_dependents(task_id, n) ==
    IF n = 0 THEN EmptyMap ELSE task_id :> {DependentPool[i] : i \in 1..n}

\* The caller calls calculate_dependency_score(task_id, all_tasks,
\* dependency_map) with a map in which task_id has n dependents.
CalculateDependencyScore ==
    /\ pc \in {"input", "idle"}
    /\ \E n \in 0..MaxDependents :
           /\ args' = [task_id |-> IdPool[1],
                       dependency_map |-> map_with_dependents(IdPool[1], n)]
           /\ result' = Ok(calculate_dependency_score(IdPool[1],
                                                      map_with_dependents(IdPool[1], n)))
    /\ pc' = "idle"
    /\ op' = "calculate_dependency_score"
    /\ UNCHANGED <<Task_objects, tasks, tasks0, scorerVars, dfsVars>>

\* The counts a caller asks suggestions for: none, one too few to be a
\* count, and up to one more than the list is long.
CountValues == (0 - 1)..(MaxTasks + 1)

\* The caller calls suggest_top_tasks(tasks, count).
SuggestTopTasks ==
    /\ pc \in {"input", "idle"}
    /\ pc' = "idle"
    /\ op' = "suggest_top_tasks"
    /\ \E count \in CountValues :
           LET suggested == suggest_top_tasks(tasks, count)
           IN  /\ args' = [count |-> count]
               /\ tasks' = suggested.tasks
               /\ result' = suggested.ret
    /\ UNCHANGED <<Task_objects, tasks0, scorerVars, dfsVars>>

-----------------------------------------------------------------------------
(* The endpoints of views.py over the Task table.  A request carries no     *)
(* 'strategy', so the scorer a view constructs, TaskScorer('smart_balance', *)
(* 'IN', consider_holidays=True), is the scorer of Init.                     *)

\* Task.objects.create(...) by add_task for a request with an id, a title,
\* an effort of 5 hours and dependencies: the importance is the default, 5,
\* and there is no due date.
new_Task(id, dependencies) ==
    [id |-> id, importance |-> 5, effort |-> 5, due_date |-> PyNone,
     dependencies |-> dependencies, is_done |-> FALSE,
     priority_score |-> 0, score_breakdown |-> <<>>]

\* Task.objects.filter(is_done=False) in the order of Meta.ordering:
\* ['-priority_score', '-created_at']; rows are kept in order of creation.
filter_not_done(rows) ==
    LET not_done == {i \in 1..Len(rows) : ~rows[i].is_done}
        ahead(i) == {j \in not_done :
                        \/ rows[j].priority_score > rows[i].priority_score
                        \/ rows[j].priority_score = rows[i].priority_score /\ j > i}
    IN  [k \in 1..Cardinality(not_done) |->
            rows[CHOOSE i \in not_done : Cardinality(ahead(i)) = k - 1]]

\* The dict a view makes of a row for the scorer; suggest_tasks gives it the
\* key 'effort' too.  Hours become half hours.
scorer_format(task, with_effort) ==
    [id |-> task.id,
     dependencies |-> PyList(task.dependencies),
     importance |-> Tag("int", task.importance),
     due_date |-> IF task.due_date.t = "date" THEN Tag("iso", task.due_date.v) ELSE PyNone,
     estimated_hours |-> Tag("num", 2 * task.effort),
     effort |-> IF with_effort THEN Tag("num", 2 * task.effort) ELSE NoValue]

tasks_list_of(rows, with_effort) ==
    LET tasks_qs == filter_not_done(rows)
    IN  [k \in 1..Len(tasks_qs) |-> scorer_format(tasks_qs[k], with_effort)]

\* The rows after Task.objects.filter(id=task_id).update(priority_score=...,
\* score_breakdown=...) for every scored task.
update_scores(rows, scored_tasks) ==
    [i \in 1..Len(rows) |->
        IF \E k \in 1..Len(scored_tasks) : scored_tasks[k].task.id = rows[i].id
        THEN LET k == CHOOSE k \in 1..Len(scored_tasks) : scored_tasks[k].task.id = rows[i].id
             IN  [rows[i] EXCEPT !.priority_score = scored_tasks[k].score,
                                 !.score_breakdown = scored_tasks[k].breakdown]
        ELSE rows[i]]

\* A Response: its HTTP status and the keys of its body the claims read; a
\* key the body lacks holds the empty list or FALSE.
Response(http_status, success, scored_tasks, circular_deps) ==
    [status |-> http_status, success |-> success, tasks |-> scored_tasks,
     circular_dependencies |-> circular_deps, warning |-> circular_deps # <<>>]

\* The analyze_tasks view as it would be if it refused a task set in which it
\* detected a cycle.
analyze_tasks_view_rejecting_cycles(rows) ==
    LET tasks_list == tasks_list_of(rows, FALSE)
        circular_deps == detect_circular_dependencies(tasks_list)
        analyzed == analyze_tasks(tasks_list)
    IN  IF tasks_list = <<>> THEN [rows |-> rows, response |-> Response(200, TRUE, <<>>, <<>>)]
        ELSE IF circular_deps # <<>>
        THEN [rows |-> rows, response |-> Response(400, FALSE, <<>>, circular_deps)]
        ELSE IF analyzed.ret.err # "none"
        THEN [rows |-> rows, response |-> Response(500, FALSE, <<>>, <<>>)]
        ELSE [rows |-> update_scores(rows, analyzed.ret.v),
              response |-> Response(200, TRUE, analyzed.ret.v, circular_deps)]

\* The analyze_tasks view: the rows after the request and its response.
analyze_tasks_view(rows) ==
    LET tasks_list == tasks_list_of(rows, FALSE)
        circular_deps == detect_circular_dependencies(tasks_list)
        analyzed == analyze_tasks(tasks_list)
    IN  IF tasks_list = <<>> THEN [rows |-> rows, response |-> Response(200, TRUE, <<>>, <<>>)]
        ELSE IF analyzed.ret.err # "none"
        THEN [rows |-> rows, response |-> Response(500, FALSE, <<>>, <<>>)]
        ELSE [rows |-> update_scores(rows, analyzed.ret.v),
              response |-> Response(200, TRUE, analyzed.ret.v, circular_deps)]

\* The suggest_tasks view for a count that int() parses: its response, with
\* the suggestions under `tasks`.
suggest_tasks_view(rows, count) ==
    LET tasks_list == tasks_list_of(rows, TRUE)
        suggested == suggest_top_tasks(tasks_list, count)
        circular_deps == detect_circular_dependencies(suggested.tasks)
    IN  IF count < 1 THEN Response(400, FALSE, <<>>, <<>>)
        ELSE IF tasks_list = <<>> THEN Response(200, TRUE, <<>>, <<>>)
        ELSE IF suggested.ret.err # "none" THEN Response(500, FALSE, <<>>, <<>>)
        ELSE Response(200, TRUE, suggested.ret.v, circular_deps)

\* The dependencies a request to add_task may name: none, the id of one
\* task that exists or may come to exist, or the first two ids.
DependencyLists ==
    {<<>>, <<IdPool[1], IdPool[2]>>} \cup {<<IdPool[i]>> : i \in 1..MaxTasks}

\* The number of dependency entries of all rows.
RECURSIVE stored_edges(_)
stored_edges(rows) ==
    IF rows = <<>> THEN 0
    ELSE Len(rows[Len(rows)].dependencies) + stored_edges(SubSeq(rows, 1, Len(rows) - 1))

\* POST /api/tasks/add/ with a new id, a title and dependencies.
AddTaskView ==
    /\ Len(Task_objects) < MaxTasks
    /\ \E dependencies \in DependencyLists :
           /\ stored_edges(Task_objects) + Len(dependencies) <= MaxEdges
           /\ Task_objects' = Append(Task_objects,
                                     new_Task(IdPool[Len(Task_objects) + 1], dependencies))
    /\ pc' = "idle"
    /\ op' = "add_task"
    /\ args' = <<>>
    /\ result' = Ok(<<>>)
    /\ UNCHANGED <<tasks, tasks0, scorerVars, dfsVars>>

\* POST /api/tasks/analyze/
AnalyzeTasksView ==
    /\ pc \in {"input", "idle"}
    /\ LET served == analyze_tasks_view(Task_objects)
       IN  /\ Task_objects' = served.rows
           /\ result' = Ok(served.response)
    /\ pc' = "idle"
    /\ op' = "analyze_tasks_view"
    /\ args' = <<>>
    /\ UNCHANGED <<tasks, tasks0, scorerVars, dfsVars>>

\* The counts of the requests for suggestions: one that is refused, and two
\* that are served.
QueryCounts == 0..2

\* GET /api/tasks/suggest/?count=...
SuggestTasksView ==
    /\ pc \in {"input", "idle"}
    /\ \E count \in QueryCounts :
           /\ args' = [count |-> count]
           /\ result' = Ok(suggest_tasks_view(Task_objects, count))
    /\ pc' = "idle"
    /\ op' = "suggest_tasks_view"
    /\ UNCHANGED <<Task_objects, tasks, tasks0, scorerVars, dfsVars>>

-----------------------------------------------------------------------------
(* The endpoints that change the set of stored tasks: add_task for any        *)
(* request data, add_bulk_tasks, mark_done and clear_all_tasks.               *)

\* request.data of add_task, or one entry of the array of add_bulk_tasks: an
\* id or none (Absent), a title or "", an importance, and an effort (hours,
\* as Tag("int", h)) or none: without 'effort' and 'estimated_hours',
\* data.get('effort', data.get('estimated_hours')) is None.
TaskData(id, title, importance, effort) ==
    [id |-> id, title |-> title, importance |-> importance, effort |-> effort]

\* not data.get(key) for a string field: the key is missing or holds "".
falsy_field(v) == v \in {Absent, ""}

\* Task.objects.filter(id=id).exists()
exists_id(rows, id) == \E i \in 1..Len(rows) : rows[i].id = id

\* Task.objects.create(id=..., title=..., importance=..., effort=..., ...):
\* the table with the new row, or the IntegrityError of the database for an
\* id that is stored (id is the primary key) and for an effort of None (the
\* column is not nullable).
Task_objects_create(rows, data) ==
    IF exists_id(rows, data.id) THEN Raise("IntegrityError")
    ELSE IF data.effort.t = "none" THEN Raise("IntegrityError")
    ELSE Ok(Append(rows, [new_Task(data.id, <<>>) EXCEPT !.importance = data.importance,
                                                        !.effort = data.effort.v]))

\* The add_task view as it would be if it saved the task under its id without
\* asking whether the id exists: a stored row with that id is replaced.
add_task_view_upsert(rows, data) ==
    IF falsy_field(data.title)
    THEN [rows |-> rows, response |-> Response(400, FALSE, <<>>, <<>>)]
    ELSE IF falsy_field(data.id)
    THEN [rows |-> rows, response |-> Response(400, FALSE, <<>>, <<>>)]
    ELSE IF data.effort.t = "none"
    THEN [rows |-> rows, response |-> Response(500, FALSE, <<>>, <<>>)]
    ELSE LET saved == [new_Task(data.id, <<>>) EXCEPT !.importance = data.importance,
                                                     !.effort = data.effort.v]
         IN  [rows |-> IF exists_id(rows, data.id)
                       THEN [i \in 1..Len(rows) |->
                                IF rows[i].id = data.id THEN saved ELSE rows[i]]
                       ELSE Append(rows, saved),
              response |-> Response(201, TRUE, <<>>, <<>>)]

\* The add_task view: the rows after the request and its response.
add_task_view(rows, data) ==
    IF falsy_field(data.title)
    THEN [rows |-> rows, response |-> Response(400, FALSE, <<>>, <<>>)]
    ELSE IF falsy_field(data.id)
    THEN [rows |-> rows, response |-> Response(400, FALSE, <<>>, <<>>)]
    ELSE IF exists_id(rows, data.id)
    THEN [rows |-> rows, response |-> Response(400, FALSE, <<>>, <<>>)]
    ELSE LET created == Task_objects_create(rows, data)
         IN  IF created.err # "none"
             THEN [rows |-> rows, response |-> Response(500, FALSE, <<>>, <<>>)]
             ELSE [rows |-> created.v, response |-> Response(201, TRUE, <<>>, <<>>)]

\* The Response of add_bulk_tasks: its HTTP status and the counts of its body
\* (0 where the body has none).
BulkResponse(http_status, success, created_count, skipped_count) ==
    [status |-> http_status, success |-> success,
     created |-> created_count, skipped |-> skipped_count]

\* The loop of add_bulk_tasks from entry idx on (1-based), with the rows and
\* the counts it has reached.
RECURSIVE add_bulk_loop(_, _, _, _, _)
add_bulk_loop(rows, tasks_array, idx, created_count, skipped_count) ==
    IF idx > Len(tasks_array)
    THEN [rows |-> rows, created |-> created_count, skipped |-> skipped_count]
    ELSE LET task_data == tasks_array[idx]
             created == Task_objects_create(rows, task_data)
         IN  IF \/ falsy_field(task_data.title)
                \/ falsy_field(task_data.id)
                \/ exists_id(rows, task_data.id)
                \/ created.err # "none"
             THEN add_bulk_loop(rows, tasks_array, idx + 1, created_count, skipped_count + 1)
             ELSE add_bulk_loop(created.v, tasks_array, idx + 1,
                                created_count + 1, skipped_count)

\* The add_bulk_tasks view for a request whose 'tasks' is a list of dicts.
add_bulk_tasks_view(rows, tasks_array) ==
    IF tasks_array = <<>>
    THEN [rows |-> rows, response |-> BulkResponse(400, FALSE, 0, 0)]
    ELSE LET done == add_bulk_loop(rows, tasks_array, 1, 0, 0)
         IN  [rows |-> done.rows,
              response |-> BulkResponse(201, TRUE, done.created, done.skipped)]

\* The mark_done view for a request without 'strategy': Task.objects.get
\* raises DoesNotExist for an id that is not stored; otherwise the task is
\* deleted and the remaining tasks are scored again.
mark_done_view(rows, task_id) ==
    IF ~\E i \in 1..Len(rows) : rows[i].id = task_id /\ ~rows[i].is_done
    THEN [rows |-> rows, response |-> Response(404, FALSE, <<>>, <<>>)]
    ELSE LET remaining == SelectSeq(rows, LAMBDA row : row.id # task_id)
             tasks_list == tasks_list_of(remaining, FALSE)
             analyzed == analyze_tasks(tasks_list)
         IN  IF tasks_list = <<>>
             THEN [rows |-> remaining, response |-> Response(200, TRUE, <<>>, <<>>)]
             ELSE IF analyzed.ret.err # "none"
             THEN [rows |-> remaining, response |-> Response(500, FALSE, <<>>, <<>>)]
             ELSE [rows |-> update_scores(remaining, analyzed.ret.v),
                   response |-> Response(200, TRUE, analyzed.ret.v, <<>>)]

\* The clear_all_tasks view: Task.objects.all().delete().
clear_all_tasks_view(rows) ==
    [rows |-> <<>>, response |-> Response(200, TRUE, <<>>, <<>>)]

\* The ids the requests to the store choose among.
StoreIds == {IdPool[i] : i \in 1..MaxStoreIds}

\* The request data sent to the store: for every id a task of importance 5
\* with a title and an effort, for the first id also one of importance 8, and
\* one task each without title, without id and without effort.
RequestEntries ==
    {TaskData(id, "title", 5, Tag("int", 5)) : id \in StoreIds}
    \cup {TaskData(IdPool[1], "title", 8, Tag("int", 5)),
          TaskData(IdPool[1], "", 5, Tag("int", 5)),
          TaskData(Absent, "title", 5, Tag("int", 5)),
          TaskData(IdPool[1], "title", 5, PyNone)}

\* The arrays a bulk request may carry, the empty one included.
Batches == UNION {[1..n -> RequestEntries] : n \in 0..MaxBatch}

\* POST /api/tasks/add/ with any request data.
AddTaskRequest ==
    /\ \E data \in RequestEntries :
           LET done == add_task_view(Task_objects, data)
           IN  /\ args' = data
               /\ Task_objects' = done.rows
               /\ result' = Ok(done.response)
    /\ pc' = "idle"
    /\ op' = "add_task"
    /\ UNCHANGED <<tasks, tasks0, scorerVars, dfsVars>>

\* POST /api/tasks/add-bulk/ with any array; args keeps the number of its
\* entries.
AddBulkTasksView ==
    /\ \E tasks_array \in Batches :
           LET done == add_bulk_tasks_view(Task_objects, tasks_array)
           IN  /\ args' = [entries |-> Len(tasks_array)]
               /\ Task_objects' = done.rows
               /\ result' = Ok(done.response)
    /\ pc' = "idle"
    /\ op' = "add_bulk_tasks"
    /\ UNCHANGED <<tasks, tasks0, scorerVars, dfsVars>>

\* DELETE /api/tasks/<task_id>/done/ for an id of the pool or one that no
\* request adds.
MarkDoneView ==
    /\ \E task_id \in StoreIds \cup {Dangling} :
           LET done == mark_done_view(Task_objects, task_id)
           IN  /\ args' = [task_id |-> task_id]
               /\ Task_objects' = done.rows
               /\ result' = Ok(done.response)
    /\ pc' = "idle"
    /\ op' = "mark_done"
    /\ UNCHANGED <<tasks, tasks0, scorerVars, dfsVars>>

\* DELETE /api/tasks/clear/
ClearAllTasksView ==
    /\ LET done == clear_all_tasks_view(Task_objects)
       IN  /\ Task_objects' = done.rows
           /\ result' = Ok(done.response)
    /\ args' = <<>>
    /\ pc' = "idle"
    /\ op' = "clear_all_tasks"
    /\ UNCHANGED <<tasks, tasks0, scorerVars, dfsVars>>

-----------------------------------------------------------------------------
(* The caller: it puts its task list together, then calls the core. *)

\* The number of dependency entries of the whole list.
RECURSIVE edge_count(_)
edge_count(ts) ==
    IF ts = <<>> THEN 0
    ELSE Len(dependencies_of(ts[Len(ts)])) + edge_count(SubSeq(ts, 1, Len(ts) - 1))

\* The ids a dependency entry may name: the ids the caller gives out, and one
\* that no task has.
DependencyIds == {IdPool[i] : i \in 1..MaxTasks} \cup {Dangling}

\* The caller appends a task with its own id and no dependency yet.
AddGraphTask ==
    /\ pc = "input"
    /\ Len(tasks) < MaxTasks
    /\ tasks' = Append(tasks, GraphTask(IdPool[Len(tasks) + 1], <<>>))
    /\ tasks0' = tasks'
    /\ UNCHANGED <<callVars, scorerVars, pc, dfsVars, op, result>>

\* The caller appends one entry to the dependencies of its last task.
AddDependency ==
    /\ pc = "input"
    /\ tasks # <<>>
    /\ edge_count(tasks) < MaxEdges
    /\ \E dep_id \in DependencyIds :
           tasks' = [tasks EXCEPT ![Len(tasks)].dependencies.v = Append(@, dep_id)]
    /\ tasks0' = tasks'
    /\ UNCHANGED <<callVars, scorerVars, pc, dfsVars, op, result>>

\* The ids a dependency entry may name when tasks may lack an id: the ids the
\* caller gives out, and the two names the core has for a first task without
\* id, f"task_{0}" and str(0).
ReferenceIds == {IdPool[i] : i \in 1..MaxTasks} \cup {synthetic_id(0), str(0)}

\* The caller appends a task with its own id; the first task of a list may
\* also come without an 'id' key.
AddTask ==
    /\ pc = "input"
    /\ Len(tasks) < MaxTasks
    /\ \E id \in {IdPool[Len(tasks) + 1]} \cup (IF tasks = <<>> THEN {Absent} ELSE {}) :
           tasks' = Append(tasks, GraphTask(id, <<>>))
    /\ tasks0' = tasks'
    /\ UNCHANGED <<callVars, scorerVars, pc, dfsVars, op, result>>

\* The ids a caller may give a task: one of its own, or a string of the form
\* the core gives to tasks without id.
SuppliedIds(n) == {IdPool[n + 1]} \cup {synthetic_id(j) : j \in 0..(MaxTasks - 1)}

\* The caller appends a task without an 'id' key, or with an id of its
\* choice that no task of the list has yet.
AddSuppliedTask ==
    /\ pc = "input"
    /\ Len(tasks) < MaxTasks
    /\ \E id \in {Absent} \cup (SuppliedIds(Len(tasks)) \ {tasks[i].id : i \in 1..Len(tasks)}) :
           tasks' = Append(tasks, GraphTask(id, <<>>))
    /\ tasks0' = tasks'
    /\ UNCHANGED <<callVars, scorerVars, pc, dfsVars, op, result>>

\* The caller appends one entry to the dependencies of its last task.
AddReference ==
    /\ pc = "input"
    /\ tasks # <<>>
    /\ edge_count(tasks) < MaxRefs
    /\ \E dep_id \in ReferenceIds :
           tasks' = [tasks EXCEPT ![Len(tasks)].dependencies.v = Append(@, dep_id)]
    /\ tasks0' = tasks'
    /\ UNCHANGED <<callVars, scorerVars, pc, dfsVars, op, result>>

\* The values the caller gives the scored fields of a task.
ImportanceValues == {NoValue, Tag("str", 0), Tag("int", 0 - 5), Tag("int", 7)}

DueDateValues ==
    {NoValue, Tag("str", 0), Tag("int", 7), Tag("date", Today + 1)}
        \cup {Tag("iso", Today + d) : d \in {0 - 3, 4, 30}}

HoursValues == {NoValue, Tag("str", 0), Tag("num", 0), Tag("num", 1), Tag("num", 20)}

\* The 'dependencies' and 'effort' values that go with them: at most one of
\* the two departs from an empty list and a missing key.
OtherValues ==
    {<<PyList(<<>>), NoValue>>, <<NoValue, NoValue>>, <<Tag("int", 7), NoValue>>,
     <<PyList(<<>>), Tag("num", 6)>>}

\* The caller starts its list with a task whose scored fields it chooses.
AddSampleTask ==
    /\ pc = "input"
    /\ tasks = <<>>
    /\ \E importance \in ImportanceValues, due_date \in DueDateValues,
          estimated_hours \in HoursValues, other \in OtherValues :
           tasks' = <<[id |-> IdPool[1], dependencies |-> other[1],
                       importance |-> importance, due_date |-> due_date,
                       estimated_hours |-> estimated_hours, effort |-> other[2]]>>
    /\ tasks0' = tasks'
    /\ UNCHANGED <<callVars, scorerVars, pc, dfsVars, op, result>>

\* The caller appends a task that depends on the first one.
AddDependent ==
    /\ pc = "input"
    /\ tasks # <<>>
    /\ Len(tasks) < MaxTasks
    /\ tasks' = Append(tasks, GraphTask(IdPool[Len(tasks) + 1], <<IdPool[1]>>))
    /\ tasks0' = tasks'
    /\ UNCHANGED <<callVars, scorerVars, pc, dfsVars, op, result>>

Init ==
    /\ tasks = <<>>
    /\ tasks0 = <<>>
    /\ strategy = "smart_balance"
    /\ weights = get_strategy_weights("smart_balance")
    /\ consider_holidays = TRUE
    /\ country_holidays = Holidays
    /\ current_date = Today
    /\ pc = "input"
    /\ visited = {}
    /\ rec_stack = {}
    /\ cycles = <<>>
    /\ stack = <<>>
    /\ top = 1
    /\ op = "none"
    /\ result = Ok(<<>>)
    /\ args = <<>>
    /\ Task_objects = <<>>

SpecDetect == Init /\ [][AddGraphTask \/ AddDependency \/ DetectNext]_vars

\* Task lists that may lack ids, under build_dependency_map and analyze_tasks.
SpecMap == Init /\ [][AddTask \/ AddReference \/ BuildDependencyMap \/ AnalyzeTasks]_vars

\* One task with scored fields and its dependents, under score_task and
\* analyze_tasks of a scorer of any strategy.
SpecScore ==
    Init /\ [][NewScorer \/ AddSampleTask \/ AddDependent \/ ScoreTask \/ AnalyzeTasks]_vars

\* One task with scored fields and its dependents, under suggest_top_tasks.
SpecSuggest == Init /\ [][AddSampleTask \/ AddDependent \/ SuggestTopTasks]_vars

\* The Task table under the endpoints that add, analyze and suggest.
SpecViews == Init /\ [][AddTaskView \/ AnalyzeTasksView \/ SuggestTasksView]_vars

\* Task lists whose ids, where the caller supplied them, are pairwise
\* distinct, under analyze_tasks.
SpecIds == Init /\ [][AddSuppliedTask \/ AnalyzeTasks]_vars

\* The Task table under the endpoints that add and remove tasks.
SpecStore ==
    Init /\ [][AddTaskRequest \/ AddBulkTasksView \/ MarkDoneView \/ ClearAllTasksView]_vars

\* The four sub-score functions, called directly by a scorer with or without
\* working-day counting.
SpecSubscore ==
    Init /\ [][NewScorer \/ CalculateUrgencyScore \/ CalculateImportanceScore
                  \/ CalculateEffortScore \/ CalculateDependencyScore]_vars

-----------------------------------------------------------------------------
(* The dependency graph of a task list, for the statements about it. *)

\* x lists y as a dependency, and both are ids of the list.
Edge(ts, x, y) ==
    /\ x \in task_ids(ts)
    /\ y \in task_ids(ts)
    /\ \E i \in 1..Len(ts) :
           /\ task_key(ts, i) = x
           /\ \E j \in 1..Len(dependencies_of(ts[i])) : dependencies_of(ts[i])[j] = y

RECURSIVE ReachableIn(_, _, _)
\* The ids reached from the set `from` by one to n edges.
ReachableIn(ts, from, n) ==
    IF n = 0 THEN {}
    ELSE LET next == {y \in task_ids(ts) : \E x \in from : Edge(ts, x, y)}
         IN  next \cup ReachableIn(ts, next, n - 1)

\* Some id reaches itself by one or more edges.
HasCycle(ts) == \E x \in task_ids(ts) : x \in ReachableIn(ts, {x}, Len(ts))

\* The list is three tasks whose edges are exactly one loop through all three.
IsLoopOfThree(ts) ==
    /\ Len(ts) = 3
    /\ Cardinality(task_ids(ts)) = 3
    /\ \A x \in task_ids(ts) :
           /\ Cardinality({y \in task_ids(ts) : Edge(ts, x, y)}) = 1
           /\ ~Edge(ts, x, x)
    /\ \A x \in task_ids(ts) : ReachableIn(ts, {x}, 2) = task_ids(ts) \ {x}

Contains(s, x) == \E i \in 1..Len(s) : s[i] = x

DetectReturned == pc = "idle" /\ op = "detect_circular_dependencies"

\* C1: when detect_circular_dependencies returns for a task list whose
\* dependency graph (edges between ids of the list) has no cycle, the sequence
\* of cycles it returns is empty.
C1_NoFalsePositive == (DetectReturned /\ ~HasCycle(tasks)) => result.v = <<>>

\* A chain a -> b -> c was searched and no cycle was reported.
C1_Witness ==
    /\ DetectReturned
    /\ Len(tasks) = 3
    /\ Edge(tasks, "a", "b")
    /\ Edge(tasks, "b", "c")
    /\ ~HasCycle(tasks)
    /\ result.v = <<>>

\* C2: when detect_circular_dependencies returns for a task list (of distinct
\* ids) whose dependency graph has a cycle, a self-loop included, it returns at
\* least one cycle; and for three tasks that form one loop the first cycle
\* returned contains all three ids.
C2_Complete ==
    /\ (DetectReturned /\ HasCycle(tasks)) => Len(result.v) >= 1
    /\ (DetectReturned /\ IsLoopOfThree(tasks)) =>
           /\ Len(result.v) >= 1
           /\ \A x \in task_ids(tasks) : Contains(result.v[1], x)

\* The loop c -> b -> a -> c was searched (each task depends on an earlier or
\* later one, so the order of the tasks is not the order of the loop).
C2_Witness ==
    /\ DetectReturned
    /\ IsLoopOfThree(tasks)
    /\ Edge(tasks, "a", "c")
    /\ Len(result.v) >= 1

RECURSIVE entries_left(_)
\* The dependency entries the calls on the stack have yet to look at, plus
\* one for each call.
entries_left(stk) ==
    IF stk = <<>> THEN 0
    ELSE LET frame == stk[Len(stk)]
         IN  Len(frame.dependencies) + 2 - frame.next
                 + entries_left(SubSeq(stk, 1, Len(stk) - 1))

\* The variant of the search: it decreases with every step of the search.
Measure ==
    (Len(tasks) - Cardinality(visited)) * (edge_count(tasks) + 1)
        + entries_left(stack) + (Len(tasks) + 1 - top) + 1

\* Some step of the running search can be taken: one of the two loops has an
\* item left, or the running call or the search itself can return.
SearchCanStep ==
    IF stack = <<>>
    THEN top <= Len(tasks) + 1
    ELSE stack[Len(stack)].next <= Len(stack[Len(stack)].dependencies) + 1

\* C3: detect_circular_dependencies terminates on every task list (with
\* self-dependencies, repeated entries, dangling ids, cycles): every step of
\* the search decreases a non-negative variant and leaves the search able to
\* step again or returned; and a call of dfs goes past its tests only for a
\* node not yet visited, so a node that was fully explored (visited and off
\* the recursion stack) is never traversed again.
C3_Terminates ==
    [][pc = "dfs" =>
            /\ Measure >= 0
            /\ pc' = "dfs" => (Measure' >= 0 /\ Measure' < Measure /\ SearchCanStep')
            /\ pc' # "dfs" => (pc' = "idle" /\ stack' = <<>> /\ rec_stack' = {})
            /\ Len(stack') > Len(stack) =>
                   stack'[Len(stack')].task_id \notin visited]_vars

\* The search returned for a list whose first task names itself twice and a
\* dangling id.
C3_Witness ==
    /\ DetectReturned
    /\ Len(tasks) >= 1
    /\ dependencies_of(tasks[1]) = <<"a", "a", Dangling>>
    /\ Len(result.v) = 2

-----------------------------------------------------------------------------
(* build_dependency_map, analyze_tasks and score_task. *)

Returned(name) == pc = "idle" /\ op = name

\* C4: build_dependency_map returns the reverse edge set: it raises nothing,
\* its keys are ids of the list (a dependency on another id adds nothing), no
\* key holds an empty set, and for all ids A and B of the list A is in map[B]
\* exactly when task A lists B in its dependencies.
C4_ReverseEdges ==
    Returned("build_dependency_map") =>
        /\ result.err = "none"
        /\ DOMAIN result.v \subseteq task_ids(tasks)
        /\ \A B \in DOMAIN result.v : result.v[B] # {} /\ result.v[B] \subseteq task_ids(tasks)
        /\ \A A \in task_ids(tasks), B \in task_ids(tasks) :
               (B \in DOMAIN result.v /\ A \in result.v[B]) <=> Edge(tasks, A, B)

\* The map of a list of two tasks whose second names the first and an id that
\* is not in the list: only the first id is a key.
C4_Witness ==
    /\ Returned("build_dependency_map")
    /\ Len(tasks) = 2
    /\ tasks[2].id = "b"
    /\ dependencies_of(tasks[2]) = <<"a", "c">>
    /\ DOMAIN result.v = {"a"}
    /\ result.v["a"] = {"b"}

\* The position in the list of the task with this id.
position_of(ts, id) == CHOOSE i \in 1..Len(ts) : ts[i].id = id

\* C5: analyze_tasks returns one scored result per task of the list (none,
\* and no error, for the empty list), by non-increasing score, and two results
\* of equal score stand in the order their tasks have in the list.
C5_SortedAndStable ==
    Returned("analyze_tasks") =>
        /\ result.err = "none"
        /\ Len(result.v) = Len(tasks0)
        /\ \A i \in 1..Len(tasks) : \E k \in 1..Len(result.v) : result.v[k].task = tasks[i]
        /\ \A k \in 1..Len(result.v), l \in 1..Len(result.v) :
               k < l =>
                   /\ result.v[k].score >= result.v[l].score
                   /\ result.v[k].score = result.v[l].score =>
                          position_of(tasks, result.v[k].task.id)
                              < position_of(tasks, result.v[l].task.id)

\* Three tasks were analyzed: the last one, on which another depends, comes
\* first, and the two before it tie and keep their order.
C5_Witness ==
    /\ Returned("analyze_tasks")
    /\ Len(result.v) = 3
    /\ result.v[1].task = tasks[3]
    /\ result.v[2].task = tasks[1]
    /\ result.v[3].task = tasks[2]
    /\ result.v[1].score > result.v[2].score
    /\ result.v[2].score = result.v[3].score

Components == {"urgency", "importance", "effort", "dependency"}

Abs(x) == IF x < 0 THEN 0 - x ELSE x

\* What rounding to hundredths may move a weighted score by, in thousandths
\* of a point: half a hundredth of the raw score times the largest weight
\* (2.5), and half a hundredth of the result.
RoundingSlack == 13 + 5

\* C6: the dict score_task returns holds, up to rounding to two decimals, a
\* total equal to the sum over the four components of raw score times weight,
\* a breakdown of raw score times weight per component, and the raw scores of
\* the task's fields; with all weights 1.0 the breakdown is the raw scores.
C6_WeightedSum ==
    (Returned("score_task") /\ result.err = "none") =>
        LET r == result.v
        IN  /\ Abs(10 * r.score
                    - (r.raw_scores.urgency * weights.urgency
                       + r.raw_scores.importance * weights.importance
                       + r.raw_scores.effort * weights.effort
                       + r.raw_scores.dependency * weights.dependency)) <= RoundingSlack
            /\ \A c \in Components :
                   Abs(10 * r.breakdown[c] - r.raw_scores[c] * weights[c]) <= RoundingSlack
            /\ r.raw_scores.importance * (Point \div 100)
                   = calculate_importance_score(r.task.importance)
            /\ r.raw_scores.dependency * (Point \div 100)
                   = calculate_dependency_score(r.task.id, build_dependency_map(tasks).v)
            /\ r.raw_scores.urgency * (Point \div 100)
                   = calculate_urgency_score(r.task.due_date, current_date).v
            /\ r.raw_scores.effort
                   = round2(calculate_effort_score(estimated_hours_of(r.task)).v, Point \div 100)
            /\ (\A c \in Components : weights[c] = 10) => r.breakdown = r.raw_scores

\* A ten-hour task was scored under fastest_wins: its raw effort score 8.36
\* became 16.71 in the breakdown.
C6_Witness ==
    /\ Returned("score_task")
    /\ result.err = "none"
    /\ strategy = "fastest_wins"
    /\ result.v.task.estimated_hours = Tag("num", 20)
    /\ result.v.raw_scores.effort = 836
    /\ result.v.breakdown.effort = 1671

\* C7: the weights of a scorer are those of its strategy name, and those of
\* smart_balance for any other name, so under such a name every result has
\* the breakdown and total of smart_balance: the raw scores and their sum.
C7_StrategyWeights ==
    /\ strategy = "smart_balance" =>
           weights = [urgency |-> 10, importance |-> 10, effort |-> 10, dependency |-> 10]
    /\ strategy = "fastest_wins" =>
           weights = [urgency |-> 5, importance |-> 7, effort |-> 20, dependency |-> 8]
    /\ strategy = "high_impact" =>
           weights = [urgency |-> 6, importance |-> 25, effort |-> 3, dependency |-> 8]
    /\ strategy = "deadline_driven" =>
           weights = [urgency |-> 25, importance |-> 7, effort |-> 5, dependency |-> 10]
    /\ strategy \notin KnownStrategies =>
           /\ weights = [urgency |-> 10, importance |-> 10, effort |-> 10, dependency |-> 10]
           /\ (Returned("analyze_tasks") /\ result.err = "none") =>
                  \A k \in 1..Len(result.v) :
                      /\ result.v[k].breakdown = result.v[k].raw_scores
                      /\ Abs(result.v[k].score
                              - (result.v[k].raw_scores.urgency
                                 + result.v[k].raw_scores.importance
                                 + result.v[k].raw_scores.effort
                                 + result.v[k].raw_scores.dependency)) <= 1

\* A scorer of an unknown strategy name analyzed a list of two tasks.
C7_Witness ==
    /\ strategy = "round_robin"
    /\ Returned("analyze_tasks")
    /\ result.err = "none"
    /\ Len(result.v) = 2

\* C8 as claimed: score_task and analyze_tasks raise nothing whatever the
\* fields of the task hold, and a missing or malformed field scores its
\* neutral default (urgency 10, importance 15, effort 7.5).
C8_NeverRaises ==
    (Returned("score_task") \/ Returned("analyze_tasks")) =>
        /\ result.err = "none"
        /\ (Returned("score_task") /\ result.v.task = tasks0[1]) =>
               /\ tasks0[1].due_date.t \notin {"iso", "datetime"}
                      => result.v.raw_scores.urgency = 1000
               /\ tasks0[1].importance.t # "int" => result.v.raw_scores.importance = 1500
               /\ (tasks0[1].estimated_hours.t \in {"absent", "none", "str"}
                      /\ tasks0[1].effort.t = "absent")
                      => result.v.raw_scores.effort = 750

\* C9 as claimed: after a call of the core the caller's task list is what it
\* was before the call: the same records in the same order.
C9_ReadOnly == pc = "idle" => tasks = tasks0

\* C10 as claimed: build_dependency_map gives for the caller's list the same
\* map before and after analyze_tasks ran on it, and a dependency on
\* "task_<i>" is recorded for the task without id at position i.
C10_SyntheticIds ==
    Returned("build_dependency_map") =>
        /\ result = build_dependency_map(tasks0)
        /\ \A i \in 1..Len(tasks0), j \in 1..Len(tasks0) :
               (tasks0[i].id = Absent
                    /\ Contains(dependencies_of(tasks0[j]), synthetic_id(i - 1)))
               => (result.err = "none" /\ synthetic_id(i - 1) \in DOMAIN result.v)

-----------------------------------------------------------------------------
(* The sub-score functions. *)

\* The days calculate_urgency_score counts from the reference date to a due
\* date not before it: calendar days, or the days of that span that are
\* neither Saturday, Sunday nor a holiday.
days_counted(now, due) ==
    IF consider_holidays
    THEN Cardinality({day \in now..(due - 1) : day % 7 \notin {5, 6} /\ day \notin country_holidays})
    ELSE due - now

\* C11 as claimed: for a due date strictly before the reference date
\* calculate_urgency_score returns exactly 40, with calendar-day counting and
\* with working-day counting.
C11_OverdueIsMaximal ==
    (Returned("calculate_urgency_score") /\ args.due_date.v < args.current_date) =>
        result = Ok(40 * Point)

\* The urgency table of the code for d days counted, in units of 1/Point.
urgency_table(d) ==
    IF d = 0 THEN 38 * Point
    ELSE IF d = 1 THEN 35 * Point
    ELSE IF d = 2 THEN 33 * Point
    ELSE IF d <= 5 THEN (30 - 2 * (d - 2)) * Point
    ELSE IF d <= 10 THEN (20 - (d - 5)) * Point
    ELSE IF d <= 15 THEN 15 * Point - 8 * (d - 10) * (Point \div 10)
    ELSE IF 3 * (d - 15) >= 50 THEN 0
    ELSE 5 * Point - 3 * (d - 15) * (Point \div 10)

\* The urgency table of the claim for d days, in units of 1/Point.
claimed_urgency_table(d) ==
    IF d = 0 THEN 38 * Point
    ELSE IF d <= 3 THEN (35 - 2 * d) * Point
    ELSE IF d <= 7 THEN 25 * Point - 15 * (d - 3) * (Point \div 10)
    ELSE IF d <= 14 THEN (15 - (d - 7)) * Point
    ELSE IF d - 14 >= 10 THEN 0
    ELSE 5 * Point - 5 * (d - 14) * (Point \div 10)

C13_ImportanceClamped ==
    Returned("calculate_importance_score") =>
        /\ result.err = "none"
        /\ result.v >= 3 * Point /\ result.v <= 30 * Point
        /\ args.importance.t # "int" => result.v = 15 * Point
        /\ args.importance.t = "int" =>
               /\ args.importance.v \in 1..10 => result.v = args.importance.v * 3 * Point
               /\ args.importance.v > 10 => result.v = 30 * Point
               /\ args.importance.v < 1 => result.v = 3 * Point

\* A rating below the range was scored as the lowest rating.
C13_Witness ==
    /\ Returned("calculate_importance_score")
    /\ args.importance = Tag("int", 0 - 5)
    /\ result = Ok(3 * Point)

\* C14 as claimed: for positive estimates h1 <= h2 the effort score of h1 is
\* at least that of h2; an estimate above 8 hours scores at most 6, and one
\* of 10 hours less than 7.
C14_EffortInverse ==
    (Returned("calculate_effort_score") /\ args.estimated_hours.t = "num"
        /\ args.estimated_hours.v > 0) =>
        /\ result.err = "none"
        /\ \A h1 \in 1..args.estimated_hours.v :
               calculate_effort_score(Tag("num", h1)).v >= result.v
        /\ args.estimated_hours.v > 16 => result.v <= 6 * Point
        /\ args.estimated_hours.v = 20 => result.v < 7 * Point

\* The number of dependents a map passed to calculate_dependency_score
\* gives the task.
dependents_passed ==
    IF args.task_id \in DOMAIN args.dependency_map
    THEN Cardinality(args.dependency_map[args.task_id]) ELSE 0

\* The fan-out score of n dependents, in units of 1/Point.
fan_out_table(n) ==
    IF n = 0 THEN 5 * Point
    ELSE IF n = 1 THEN 8 * Point
    ELSE IF n = 2 THEN 11 * Point
    ELSE IF 3 * (n - 2) >= 8 THEN 15 * Point
    ELSE 11 * Point + 3 * (n - 2) * (Point \div 2)

-----------------------------------------------------------------------------
(* Dependents, repeated analysis and suggestions. *)

\* The tasks of the list other than the task `id` that name it in their
\* dependencies.
other_dependents(ts, id) ==
    {i \in 1..Len(ts) : ts[i].id # id /\ Contains(dependencies_of(ts[i]), id)}

\* C16 as claimed: the dependent count a task is scored with is the number of
\* other tasks of the list that name it as a dependency: naming itself adds
\* nothing, and naming it several times counts once.
C16_OtherDependents ==
    (Returned("analyze_tasks") /\ result.err = "none") =>
        \A k \in 1..Len(result.v) :
            result.v[k].raw_scores.dependency * (Point \div 100)
                = fan_out_table(Cardinality(other_dependents(tasks, result.v[k].task.id)))

\* C17: analyze_tasks called again on the list as the first call left it,
\* with the same scorer on the same day, returns the same total for every
\* task in the same order, also when tasks came without an id.
C17_Idempotent ==
    Returned("analyze_tasks") =>
        LET again == analyze_tasks(tasks)
        IN  /\ again.tasks = tasks
            /\ again.ret.err = result.err
            /\ result.err = "none" =>
                   /\ Len(again.ret.v) = Len(result.v)
                   /\ \A k \in 1..Len(result.v) :
                          /\ again.ret.v[k].score = result.v[k].score
                          /\ again.ret.v[k].task = result.v[k].task

\* A list whose first task came without an id and is named as "task_0" by the
\* second was analyzed: the first task got the id and the score of a task
\* with one dependent, and leads.
C17_Witness ==
    /\ Returned("analyze_tasks")
    /\ Len(tasks0) = 2
    /\ tasks0[1].id = Absent
    /\ dependencies_of(tasks0[2]) = <<synthetic_id(0)>>
    /\ result.v[1].task.id = synthetic_id(0)
    /\ result.v[1].raw_scores.dependency = 800
    /\ result.v[2].raw_scores.dependency = 500

\* C18: for a positive count suggest_top_tasks returns the first
\* min(count, number of tasks) results of analyze_tasks in their order, each
\* with its task, total, breakdown and raw scores as analyze_tasks gives them
\* and with an explanation that is not the empty string; it raises what
\* analyze_tasks raises.
C18_TopOfAnalysis ==
    (Returned("suggest_top_tasks") /\ args.count > 0) =>
        LET analysis == analyze_tasks(tasks0).ret
        IN  /\ result.err = analysis.err
            /\ result.err = "none" =>
                   /\ Len(result.v) = Min(args.count, Len(tasks0))
                   /\ \A k \in 1..Len(result.v) :
                          /\ result.v[k].task = analysis.v[k].task
                          /\ result.v[k].score = analysis.v[k].score
                          /\ result.v[k].breakdown = analysis.v[k].breakdown
                          /\ result.v[k].raw_scores = analysis.v[k].raw_scores
                          /\ result.v[k].explanation # ""

\* Two suggestions were asked of three tasks: the first, a short task the
\* others depend on, carries two reasons, the second the fallback.
C18_Witness ==
    /\ Returned("suggest_top_tasks")
    /\ args.count = 2
    /\ Len(tasks0) = 3
    /\ result.err = "none"
    /\ Len(result.v) = 2
    /\ result.v[1].explanation = "Quick win (low effort) * Blocks other tasks"
    /\ result.v[2].explanation = "Balanced priority across factors"

\* C19 as claimed: suggest_top_tasks called with a count that is zero or
\* negative raises an error and returns no suggestion.
C19_CountRejected ==
    (Returned("suggest_top_tasks") /\ args.count < 1) => result.err # "none"

-----------------------------------------------------------------------------
(* The endpoints. *)

\* The stored tasks that are not done, as the scorer gets them.
stored_tasks == tasks_list_of(Task_objects, FALSE)

\* The fan-out score, in hundredths, of the stored task `id`: that of the
\* number of stored tasks that name it.
stored_fan_out(id) ==
    fan_out_table(Cardinality({i \in 1..Len(stored_tasks) :
                                  Contains(dependencies_of(stored_tasks[i]), id)}))
        \div (Point \div 100)

\* C20: whether or not the stored tasks hold a dependency cycle, the analyze
\* endpoint answers 200 with one scored result for every task that is not
\* done and the suggest endpoint, for a positive count, 200 with the first
\* min(count, number of tasks) of them; each result has the fan-out score of
\* the reverse edges to its task; the cycles come with the answer as a
\* warning, exactly when there is a cycle.
C20_CyclesOnlyWarn ==
    /\ Returned("analyze_tasks_view") =>
           /\ result.v.status = 200 /\ result.v.success
           /\ Len(result.v.tasks) = Len(stored_tasks)
           /\ \A i \in 1..Len(stored_tasks) :
                  \E k \in 1..Len(result.v.tasks) :
                      /\ result.v.tasks[k].task.id = stored_tasks[i].id
                      /\ result.v.tasks[k].raw_scores.dependency
                             = stored_fan_out(stored_tasks[i].id)
           /\ result.v.warning <=> HasCycle(stored_tasks)
           /\ result.v.circular_dependencies # <<>> <=> HasCycle(stored_tasks)
    /\ (Returned("suggest_tasks_view") /\ args.count >= 1) =>
           /\ result.v.status = 200 /\ result.v.success
           /\ Len(result.v.tasks) = Min(args.count, Len(stored_tasks))
           /\ \A k \in 1..Len(result.v.tasks) :
                  /\ \E i \in 1..Len(stored_tasks) :
                         result.v.tasks[k].task.id = stored_tasks[i].id
                  /\ result.v.tasks[k].raw_scores.dependency
                         = stored_fan_out(result.v.tasks[k].task.id)
           /\ result.v.warning <=> HasCycle(stored_tasks)
           /\ result.v.circular_dependencies # <<>> <=> HasCycle(stored_tasks)

\* The analyze endpoint answered for three stored tasks of which the first
\* two depend on each other and the third on the first: all three are
\* scored, the first with two dependents, and the cycle is reported.
C20_Witness ==
    /\ Returned("analyze_tasks_view")
    /\ Len(Task_objects) = 3
    /\ Task_objects[1].dependencies = <<IdPool[2]>>
    /\ Task_objects[2].dependencies = <<IdPool[1]>>
    /\ Task_objects[3].dependencies = <<IdPool[1]>>
    /\ result.v.success
    /\ Len(result.v.tasks) = 3
    /\ result.v.tasks[1].task.id = IdPool[1]
    /\ result.v.tasks[1].raw_scores.dependency = 1100
    /\ result.v.warning
    /\ Len(result.v.circular_dependencies) = 1

-----------------------------------------------------------------------------
(* Reported cycles, urgency over time, ids, and the stored set. *)

\* c is a closed walk of the dependency graph of ts: it starts and ends at
\* the same id, its ids are ids of the list, and each names the next as a
\* dependency.
ClosedWalk(ts, c) ==
    /\ Len(c) >= 2
    /\ c[1] = c[Len(c)]
    /\ \A i \in 1..Len(c) : c[i] \in task_ids(ts)
    /\ \A i \in 1..(Len(c) - 1) : Edge(ts, c[i], c[i + 1])

\* The path of the running search: the nodes of the calls of dfs on the
\* stack, outermost first.
current_path == [i \in 1..Len(stack) |-> stack[i].task_id]

\* C21: every cycle detect_circular_dependencies holds or returns is a closed
\* walk of the dependency graph over ids of the list, and a step of the
\* search that reports a cycle appends the slice of the current path from the
\* first occurrence of the node it re-entered, a node on the recursion stack,
\* to its end, followed by that node.
C21_GenuineCycles ==
    [][/\ \A k \in 1..Len(cycles') : ClosedWalk(tasks', cycles'[k])
       /\ DetectReturned' =>
              \A k \in 1..Len(result'.v) : ClosedWalk(tasks', result'.v[k])
       /\ (pc = "dfs" /\ cycles' # cycles) =>
              LET reported == cycles'[Len(cycles')]
                  node == reported[Len(reported)]
              IN  /\ node \in rec_stack
                  /\ Contains(current_path, node)
                  /\ cycles' = Append(cycles,
                                      SubSeq(current_path, path_index(current_path, node),
                                             Len(current_path)) \o <<node>>)]_vars

\* The search, three calls deep on the path a, b, c, has reported the cycle
\* b, c, b: the slice of the path from b on.
C21_Witness ==
    /\ pc = "dfs"
    /\ Len(stack) = 3
    /\ current_path = <<"a", "b", "c">>
    /\ cycles = << <<"b", "c", "b">> >>

\* C22: for the reference date of a call of calculate_urgency_score, no later
\* due date scores higher than the due date of the call, with calendar days
\* and with working days, and the score is never below 0.
C22_UrgencyMonotone ==
    Returned("calculate_urgency_score") =>
        /\ result.err = "none"
        /\ result.v >= 0
        /\ \A later \in args.due_date.v..(args.current_date + MaxDays) :
               calculate_urgency_score(Tag("iso", later), args.current_date).v <= result.v

\* With working days, a Wednesday as the reference date and the Friday a
\* holiday: a task due on Saturday scores 33, the same as one due on Monday
\* and more than one due on Tuesday.
C22_Witness ==
    /\ Returned("calculate_urgency_score")
    /\ consider_holidays
    /\ args.current_date = Today
    /\ args.due_date.v = Today + 3
    /\ result = Ok(33 * Point)
    /\ calculate_urgency_score(Tag("iso", Today + 5), Today) = Ok(33 * Point)
    /\ calculate_urgency_score(Tag("iso", Today + 6), Today).v < 33 * Point

\* C23 as claimed: when the ids the caller supplied are pairwise distinct,
\* the ids of the tasks after analyze_tasks assigned "task_<index>" to the
\* tasks without id are pairwise distinct.
C23_UniqueIds ==
    (/\ Returned("analyze_tasks")
     /\ \A i \in 1..Len(tasks0), j \in 1..Len(tasks0) :
            (i # j /\ tasks0[i].id # Absent) => tasks0[i].id # tasks0[j].id)
    => \A i \in 1..Len(tasks), j \in 1..Len(tasks) :
           i # j => (tasks[i].id # Absent /\ tasks[i].id # tasks[j].id)

\* The fields of a stored row that a request to add a task sets.
stored_data(row) ==
    <<row.id, row.importance, row.effort, row.due_date, row.dependencies>>

stored_ids(rows) == {rows[i].id : i \in 1..Len(rows)}

\* An entry has a title, an id and an effort: creating it raises nothing if
\* its id is not stored.
well_formed(data) ==
    ~falsy_field(data.title) /\ ~falsy_field(data.id) /\ data.effort.t # "none"

\* The positions of the entries of a batch that are to be created: the well
\* formed ones whose id is neither stored nor that of a well-formed entry
\* before them.
to_create(rows, batch) ==
    {k \in 1..Len(batch) :
        /\ well_formed(batch[k])
        /\ batch[k].id \notin stored_ids(rows)
        /\ \A j \in 1..(k - 1) : ~(well_formed(batch[j]) /\ batch[j].id = batch[k].id)}

\* The rows of those entries, in the order of the batch.
rows_to_create(rows, batch) ==
    LET S == to_create(rows, batch)
        nth(n) == CHOOSE k \in S : Cardinality({j \in S : j < k}) = n - 1
    IN  [n \in 1..Cardinality(S) |->
            [new_Task(batch[nth(n)].id, <<>>) EXCEPT !.importance = batch[nth(n)].importance,
                                                    !.effort = batch[nth(n)].effort.v]]

\* rows_after holds every task of rows_before that it still stores with the
\* data it had, and no id twice.
kept(rows_before, rows_after) ==
    /\ \A i \in 1..Len(rows_after), j \in 1..Len(rows_after) :
           i # j => rows_after[i].id # rows_after[j].id
    /\ \A i \in 1..Len(rows_before), j \in 1..Len(rows_after) :
           rows_before[i].id = rows_after[j].id
               => stored_data(rows_before[i]) = stored_data(rows_after[j])

=============================================================================
